---- MODULE Spec2Model ----
(***************************************************************************)
(* Process supervisor of miner_gui.py (class MinerGUI): the per-identity   *)
(* records procs / proc_pids / proc_paused / proc_last_error, the          *)
(* start / stop / kill / pause / resume operations, the one-shot           *)
(* escalation timers armed by stop_miner, and the QProcess callbacks       *)
(* (errorOccurred, finished).                                              *)
(*                                                                         *)
(* Everything runs on the single GUI thread, so every handler is one       *)
(* atomic action.  A handler that calls another handler (stop_miner ->     *)
(* resume_miner, start_miner -> stop_miner, kill_miner -> the finished     *)
(* callback delivered inside waitForFinished) is modelled by composing     *)
(* operators over a record s that holds the whole program state.           *)
(*                                                                         *)
(* Environment: each launched QProcess is an instance 1..MaxInst.  ost[i]  *)
(* is the state of its OS process: "none" (not created), "alive",          *)
(* "suspended", "dead" (the OS process is gone but Qt has not dispatched   *)
(* its death yet, so QProcess.state() is still Running) and "reaped" (Qt   *)
(* dispatched the death: state() is NotRunning, finished was emitted).     *)
(* ocrash[i] tells whether a dead process was killed or crashed; the exit  *)
(* code of a process that ended by itself is drawn when Qt reports it.      *)
(* Instances are numbered in launch order; MaxInst bounds the launches of  *)
(* a session and MaxTimers the escalation timers pending at one time.      *)
(* The handlers are taken as callable in every state (the buttons that     *)
(* _update_all_buttons disables are not the only callers).                 *)
(* The platform is win32 (pause/resume supported); on other platforms      *)
(* pause_miner and resume_miner return at once, which is a stuttering      *)
(* step of this model.  Modal message boxes are taken to return at once.   *)
(*                                                                         *)
(* self.settings is replaced whenever the settings dialog is accepted      *)
(* (open_settings), also while miners run, and is read only by             *)
(* start_miner; so each start reads settings cfg drawn at that moment.     *)
(*                                                                         *)
(* Spec explores the sessions in which one identity (the pausable one) is  *)
(* operated, with every operation and callback.  SpecExcl explores the     *)
(* sessions in which every identity is started, stopped and killed, for    *)
(* the statements about several identities.  SpecOut explores the          *)
(* sessions in which both identities are launched, print and exit: the     *)
(* readyReadStandardOutput callback with the log widgets, the global log   *)
(* and the hashrate sample.  Process output is a sequence of pieces:       *)
(* words, the line ends "CR" and "LF", an SGR escape sequence and a byte   *)
(* that is not UTF-8; MaxLines bounds the lines forwarded in a session.    *)
(***************************************************************************)
EXTENDS Integers, Sequences, FiniteSets, TLC

\* ------------------------------------------------------------------ bounds
MaxInst == 2
MaxTimers == 2
MaxScripts == 3
MaxLines == 2

\* ------------------------------------------------------- configured miners
ID == {"xmrig", "wildrig"}
MinerOrder == <<"xmrig", "wildrig">>
MinerType(id) == IF id = "xmrig" THEN "EXE" ELSE "BAT"
\* File names are sequences of pieces; every piece but "/" and " " is made of
\* letters, digits, dots, dashes and underscores only.
NamePieces == {"xmrig", "XMRig", "wildrig", "cmd", "evil", ".", "/", " ", ".exe", ".EXE"}
SafePieces == NamePieces \ {"/", " "}
KillNames(id) ==
    IF id = "xmrig" THEN << <<"xmrig", ".exe">> >> ELSE << <<"wildrig", ".exe">> >>
\* base-name of the process image QProcess launches for the identity
ExeName(id) == IF MinerType(id) = "BAT" THEN <<"cmd", ".exe">> ELSE <<"xmrig", ".exe">>

NoProc == 0
Inst == 1..MaxInst
PidOf(i) == i
\* proc_last_error values: <<kind, exit code>>
NoError == <<"None", 0>>
ExitCodes == {0, 1}
CrashCode == 1
ExitMsg(code) == <<"exited with code", code>>
ErrMsg == <<"process error", 0>>

VARIABLES
    procs,            \* self.procs: identity -> tracked QProcess instance or NoProc
    proc_pids,        \* self.proc_pids: identity -> pid or NoProc
    proc_paused,      \* self.proc_paused
    proc_last_error,  \* self.proc_last_error
    ost,              \* OS state of every instance
    ocrash,           \* a dead instance ended by crash/kill (QProcess.CrashExit)
    owner,            \* the miner_id captured by the instance's callbacks
    timers,           \* pending escalation timers, in firing order:
                      \* <<miner_id, instance it was armed for>>
    latest,           \* history: the instance launched last for each identity
    escalated,        \* history: instances a timer armed for them has called kill_miner for
    display,          \* the log widget of each miner tab: the entries appended
    global_log,       \* self.global_log: the entries appended for process output
    last_hashrate     \* self.last_hashrate

vars == <<procs, proc_pids, proc_paused, proc_last_error, ost, ocrash,
          owner, timers, latest, escalated, display, global_log, last_hashrate>>

\* --------------------------------------------------------- state as record
Cur == [procs |-> procs, pids |-> proc_pids, paused |-> proc_paused,
        err |-> proc_last_error, ost |-> ost, ocrash |-> ocrash,
        owner |-> owner, timers |-> timers, latest |-> latest,
        display |-> display, glog |-> global_log, hr |-> last_hashrate,
        eff |-> <<>>, res |-> "None", over |-> FALSE]

Eff(s, kind, n) == [s EXCEPT !.eff = Append(@, <<kind, n>>)]

QState(s, i) == IF s.ost[i] \in {"alive", "suspended", "dead"} THEN "Running" ELSE "NotRunning"

is_running(s, id) == s.procs[id] # NoProc /\ QState(s, s.procs[id]) # "NotRunning"

is_paused(s, id) == s.paused[id]

\* ----------------------------------------------------------- OS primitives
\* QProcess.kill() / psutil kill(): the OS process ends with a crash exit status
KillOS(s, i) ==
    IF s.ost[i] \in {"alive", "suspended"}
    THEN [s EXCEPT !.ost[i] = "dead", !.ocrash[i] = TRUE]
    ELSE s

\* NtSuspendProcess succeeds only on a live process (ok: the OS call did not fail)
suspend_process(s, pid, ok) ==
    IF ok /\ s.ost[pid] \in {"alive", "suspended"}
    THEN [Eff(s, "suspend", pid) EXCEPT !.ost[pid] = "suspended", !.res = "ok"]
    ELSE [s EXCEPT !.res = "raise"]

resume_process(s, pid, ok) ==
    IF ok /\ s.ost[pid] \in {"alive", "suspended"}
    THEN [Eff(s, "resume", pid) EXCEPT !.ost[pid] = "alive", !.res = "ok"]
    ELSE [s EXCEPT !.res = "raise"]

\* kill_process_tree(pid, include_parent=True): descendants, then the root
kill_process_tree(s, pid) == KillOS(Eff(s, "kill_process_tree", pid), pid)

\* str.lower() and str.strip() on names
LowerPiece(x) == IF x = "XMRig" THEN "xmrig" ELSE IF x = ".EXE" THEN ".exe" ELSE x
Lower(n) == [k \in DOMAIN n |-> LowerPiece(n[k])]
RECURSIVE LStrip(_)
LStrip(n) == IF n # <<>> /\ Head(n) = " " THEN LStrip(Tail(n)) ELSE n
RECURSIVE RStrip(_)
RStrip(n) == IF n # <<>> /\ n[Len(n)] = " " THEN RStrip(SubSeq(n, 1, Len(n) - 1)) ELSE n
Strip(n) == RStrip(LStrip(n))
\* SAFE_EXE_NAME_RE.match: ^[A-Za-z0-9_.-]+\.exe$ with IGNORECASE
SafeExeName(n) ==
    /\ Len(n) >= 2
    /\ LowerPiece(n[Len(n)]) = ".exe"
    /\ \A k \in 1..(Len(n) - 1) : n[k] \in SafePieces

\* the processes psutil.process_iter lists (those launched in the session)
Listed(s) == { i \in Inst : s.ost[i] \in {"alive", "suspended"} }
\* a kill_by_name that compares the names as they are written
kill_exe_name_exact(s, exe_name, denied) ==
    LET nm == Strip(exe_name)
        hit == { i \in Listed(s) \ denied : ExeName(s.owner[i]) = nm }
    IN IF ~SafeExeName(nm) THEN [st |-> s, killed |-> 0]
       ELSE [st |-> [s EXCEPT !.ost = [i \in Inst |-> IF i \in hit THEN "dead" ELSE s.ost[i]],
                              !.ocrash = [i \in Inst |-> IF i \in hit THEN TRUE ELSE s.ocrash[i]]],
             killed |-> Cardinality(hit)]
\* kill_by_name(exe_name): kills every listed process whose name equals
\* exe_name ignoring case; denied: the processes whose kill() raises
\* psutil.Error.  Gives the state afterwards and the count returned.
kill_exe_name(s, exe_name, denied) ==
    LET nm == Strip(exe_name)
        target == Lower(nm)
        hit == { i \in Listed(s) \ denied : Lower(ExeName(s.owner[i])) = target }
    IN IF ~SafeExeName(nm) THEN [st |-> s, killed |-> 0]
       ELSE [st |-> [s EXCEPT !.ost = [i \in Inst |-> IF i \in hit THEN "dead" ELSE s.ost[i]],
                              !.ocrash = [i \in Inst |-> IF i \in hit THEN TRUE ELSE s.ocrash[i]]],
             killed |-> Cardinality(hit)]

\* the k-th kill_by_name call of kill_miner, on the miner's kill_names
kill_by_name(s, id, k) ==
    kill_exe_name(Eff(s, "kill_by_name", k), KillNames(id)[k], {}).st

\* ------------------------------------------------------- process callbacks
on_proc_error_ignored(s, id) == s

on_proc_error(s, id) == [s EXCEPT !.err[id] = ErrMsg]

on_proc_finished_keep_pid(s, id, exit_code) ==
    [s EXCEPT !.err[id] = IF exit_code # 0 THEN ExitMsg(exit_code) ELSE NoError,
              !.procs[id] = NoProc, !.paused[id] = FALSE]

on_proc_finished_keep(s, id, exit_code) ==
    [s EXCEPT !.err[id] = IF exit_code # 0 THEN ExitMsg(exit_code) ELSE @,
              !.procs[id] = NoProc, !.pids[id] = NoProc, !.paused[id] = FALSE]

on_proc_finished(s, id, exit_code) ==
    [s EXCEPT !.err[id] = IF exit_code # 0 THEN ExitMsg(exit_code) ELSE NoError,
              !.procs[id] = NoProc, !.pids[id] = NoProc, !.paused[id] = FALSE]

\* Qt dispatches the death of instance i: errorOccurred(Crashed) when it
\* crashed, then state() becomes NotRunning, then finished(exitCode, status).
\* Both slots were connected with the launching miner_id (owner).
\* code: the exit code Qt reports; a killed or crashed process reports CrashCode
ProcessDied(s, i, code) ==
    LET id == s.owner[i]
        s1 == IF s.ocrash[i] THEN on_proc_error(s, id) ELSE s
        s2 == [s1 EXCEPT !.ost[i] = "reaped", !.ocrash[i] = FALSE]
    IN on_proc_finished(s2, id, IF s.ocrash[i] THEN CrashCode ELSE code)

\* --------------------------------------------------------- pause / resume
\* a pause_miner that sets the flag before the suspend call
pause_miner_flag_first(s, id, ok) ==
    IF ~is_running(s, id) THEN [s EXCEPT !.res = "NotRunning"]
    ELSE IF is_paused(s, id) THEN [s EXCEPT !.res = "AlreadyPaused"]
    ELSE IF s.pids[id] = NoProc THEN [s EXCEPT !.res = "NoPid"]
    ELSE LET r == suspend_process([s EXCEPT !.paused[id] = TRUE], s.pids[id], ok)
         IN IF r.res = "ok" THEN [r EXCEPT !.res = "Paused"]
            ELSE [r EXCEPT !.res = "PauseFailed"]

pause_miner(s, id, ok) ==
    IF ~is_running(s, id) THEN [s EXCEPT !.res = "NotRunning"]
    ELSE IF is_paused(s, id) THEN [s EXCEPT !.res = "AlreadyPaused"]
    ELSE IF s.pids[id] = NoProc THEN [s EXCEPT !.res = "NoPid"]
    ELSE LET r == suspend_process(s, s.pids[id], ok)
         IN IF r.res = "ok" THEN [r EXCEPT !.paused[id] = TRUE, !.res = "Paused"]
            ELSE [r EXCEPT !.res = "PauseFailed"]

resume_miner_unchecked(s, id, ok) ==
    IF ~is_running(s, id) THEN [s EXCEPT !.paused[id] = FALSE, !.res = "NotRunning"]
    ELSE IF s.pids[id] = NoProc THEN [s EXCEPT !.paused[id] = FALSE, !.res = "NoPid"]
    ELSE LET r == resume_process(s, s.pids[id], ok)
         IN IF r.res = "ok" THEN [r EXCEPT !.paused[id] = FALSE, !.res = "Resumed"]
            ELSE [r EXCEPT !.res = "ResumeFailed"]

resume_miner(s, id, ok) ==
    IF ~is_running(s, id) THEN [s EXCEPT !.paused[id] = FALSE, !.res = "NotRunning"]
    ELSE IF ~is_paused(s, id) THEN [s EXCEPT !.res = "NotPaused"]
    ELSE IF s.pids[id] = NoProc THEN [s EXCEPT !.paused[id] = FALSE, !.res = "NoPid"]
    ELSE LET r == resume_process(s, s.pids[id], ok)
         IN IF r.res = "ok" THEN [r EXCEPT !.paused[id] = FALSE, !.res = "Resumed"]
            ELSE [r EXCEPT !.res = "ResumeFailed"]

\* ------------------------------------------------------------ stop / kill
stop_miner_unguarded(s, id, ok) ==
    LET proc == s.procs[id]
        s1 == IF is_paused(s, id) THEN resume_miner(s, id, ok) ELSE s
        s2 == Eff(s1, "terminate", proc)
        s3 == [s2 EXCEPT !.timers = Append(@, <<id, proc>>),
                         !.over = @ \/ Len(s2.timers) >= MaxTimers]
    IN [Eff(s3, "timer", proc) EXCEPT !.res = "Stopping"]

stop_miner(s, id, ok) ==
    LET proc == s.procs[id] IN
    IF proc = NoProc \/ QState(s, proc) = "NotRunning" THEN [s EXCEPT !.res = "NotRunning"]
    ELSE LET s1 == IF is_paused(s, id) THEN resume_miner(s, id, ok) ELSE s
             s2 == Eff(s1, "terminate", proc)
             s3 == [s2 EXCEPT !.timers = Append(@, <<id, proc>>),
                              !.over = @ \/ Len(s2.timers) >= MaxTimers]
         IN [Eff(s3, "timer", proc) EXCEPT !.res = "Stopping"]

RECURSIVE SweepFrom(_, _, _)
SweepFrom(s, id, k) ==
    IF k > Len(KillNames(id)) THEN s ELSE SweepFrom(kill_by_name(s, id, k), id, k + 1)

kill_miner(s, id, ok, waited, code) ==
    LET s1 == IF is_paused(s, id) THEN resume_miner(s, id, ok) ELSE s
        proc == s1.procs[id]
        \* proc.kill(); proc.waitForFinished(2000): a death Qt has not dispatched
        \* yet is dispatched inside the wait; a fresh kill may outlast the wait
        s2 == IF proc # NoProc /\ QState(s1, proc) # "NotRunning"
              THEN LET k == Eff(KillOS(s1, proc), "kill", proc)
                   IN IF waited \/ s1.ost[proc] = "dead" THEN ProcessDied(k, proc, code) ELSE k
              ELSE s1
        pid == s2.pids[id]
        s3 == IF pid # NoProc THEN kill_process_tree(s2, pid) ELSE s2
        s4 == SweepFrom(s3, id, 1)
    IN [s4 EXCEPT !.procs[id] = NoProc, !.pids[id] = NoProc, !.paused[id] = FALSE,
                  !.res = "Killed"]

escalate_never(s, id, ok, waited, code) == [s EXCEPT !.res = "NoOp"]

escalate_always(s, id, ok, waited, code) == kill_miner(s, id, ok, waited, code)

escalate_kill_if_running(s, id, ok, waited, code) ==
    IF is_running(s, id) THEN kill_miner(s, id, ok, waited, code)
    ELSE [s EXCEPT !.res = "NoOp"]

\* ------------------------------------------------------------------ start
\* _write_xmrig_config: None when auto-config is off or a field is missing,
\* else the generated file is written beside the executable
write_xmrig_config(s, xm) ==
    IF ~xm.auto_config THEN s
    ELSE IF xm.pool = "" \/ xm.wallet = "" THEN Eff(s, "ValidationFailure", 0)
    ELSE Eff(s, "write_text", 0)

FreeSlots(s) == {i \in Inst : s.ost[i] = "none"}

start_process_keep_error(s, id, started) ==
    IF ~started THEN [on_proc_error(Eff(s, "start", 0), id) EXCEPT !.res = "StartFailed"]
    ELSE IF FreeSlots(s) = {} THEN [s EXCEPT !.over = TRUE]
    ELSE LET i == CHOOSE x \in FreeSlots(s) : \A y \in FreeSlots(s) : x <= y
         IN [Eff(s, "start", i) EXCEPT
              !.owner[i] = id, !.ost[i] = "alive",
              !.procs[id] = i, !.pids[id] = PidOf(i), !.paused[id] = FALSE,
              !.latest[id] = i,
              !.res = "Started"]

\* started: proc.waitForStarted(5000) returned True.  A failed start makes
\* QProcess emit errorOccurred(FailedToStart), whose slot is already connected.
start_process(s, id, started) ==
    LET s0 == [s EXCEPT !.err[id] = NoError]
    IN IF ~started THEN [on_proc_error(Eff(s0, "start", 0), id) EXCEPT !.res = "StartFailed"]
       ELSE IF FreeSlots(s) = {} THEN [s0 EXCEPT !.over = TRUE]
       ELSE LET i == CHOOSE x \in FreeSlots(s) : \A y \in FreeSlots(s) : x <= y
            IN [Eff(s0, "start", i) EXCEPT
                 !.owner[i] = id, !.ost[i] = "alive",
                 !.procs[id] = i, !.pids[id] = PidOf(i), !.paused[id] = FALSE,
                 !.latest[id] = i,
                 !.res = "Started"]

\* ------------------------------------------------------- script selection
\* The .bat files are numbered in the order of sorted(d.glob("*.bat")).
Scripts == 1..MaxScripts
NoScript == 0
\* _scripts_list_bats(folder): the sorted listing of a set of files
Listing(S) ==
    CHOOSE f \in [1..Cardinality(S) -> S] : \A i, j \in DOMAIN f : i < j => f[i] < f[j]
Listings == { Listing(S) : S \in SUBSET Scripts }
\* miner["active_scripts"]: ticked names, which may no longer be in the folder
ActiveLists ==
    {<<>>} \cup { <<a>> : a \in Scripts }
           \cup { p \in Scripts \X Scripts : p[1] # p[2] }
Range(f) == { f[k] : k \in DOMAIN f }
\* the active names that are available in the folder, in their order
ValidActive(c) == SelectSeq(c.active, LAMBDA a : a \in Range(c.bats))
\* the items QInputDialog.getItem offers, if _choose_bat_script_path asks
DialogItems(c) ==
    IF c.folder = "" \/ c.bats = <<>> THEN {}
    ELSE IF Len(ValidActive(c)) > 1 THEN Range(ValidActive(c))
    ELSE IF Len(ValidActive(c)) = 0 /\ Len(c.bats) # 1 THEN Range(c.bats)
    ELSE {}
\* folder: scripts_dir or path; bats: the folder's listing (none without a
\* folder); active: the ticked
\* names; okd, choice: what the dialog returns (the preselected item when
\* it is cancelled or not shown)
ScriptCases ==
    { c \in [folder : {"", "dir"}, bats : Listings, active : ActiveLists,
              okd : BOOLEAN, choice : Scripts] :
        /\ c.folder = "" => c.bats = <<>>
        /\ IF DialogItems(c) = {} THEN c.choice = 1 /\ c.okd
           ELSE IF c.okd THEN c.choice \in DialogItems(c)
           ELSE c.choice = 1 }

\* a _choose_bat_script_path that takes the first of several active scripts
\* without asking
choose_bat_script_path_first(c) ==
    LET none == [path |-> NoScript, active |-> c.active, saved |-> FALSE, asked |-> FALSE]
        act == ValidActive(c)
    IN IF c.folder = "" \/ c.bats = <<>> THEN none
       ELSE IF Len(act) >= 1 THEN [none EXCEPT !.path = act[1]]
       ELSE IF Len(c.bats) = 1
       THEN [none EXCEPT !.path = c.bats[1], !.active = <<c.bats[1]>>, !.saved = TRUE]
       ELSE IF c.okd /\ c.choice \in Range(c.bats)
            THEN [path |-> c.choice, active |-> <<c.choice>>, saved |-> TRUE, asked |-> TRUE]
            ELSE [none EXCEPT !.asked = TRUE]

\* a _choose_bat_script_path that counts the ticked names as they are stored,
\* without validating them against the folder
choose_bat_script_path_stale(c) ==
    LET none == [path |-> NoScript, active |-> c.active, saved |-> FALSE, asked |-> FALSE]
        act == c.active
    IN IF c.folder = "" THEN none
       ELSE IF c.bats = <<>> THEN none
       ELSE IF Len(act) = 1 THEN [none EXCEPT !.path = act[1]]
       ELSE IF Len(act) > 1
       THEN IF c.okd /\ c.choice \in Range(c.bats)
            THEN [none EXCEPT !.path = c.choice, !.asked = TRUE]
            ELSE [none EXCEPT !.asked = TRUE]
       ELSE IF Len(c.bats) = 1
       THEN [none EXCEPT !.path = c.bats[1], !.active = <<c.bats[1]>>, !.saved = TRUE]
       ELSE IF c.okd /\ c.choice \in Range(c.bats)
            THEN [path |-> c.choice, active |-> <<c.choice>>, saved |-> TRUE, asked |-> TRUE]
            ELSE [none EXCEPT !.asked = TRUE]

\* _choose_bat_script_path: the script to run (or NoScript), the ticked names
\* afterwards, whether they were saved (_persist_active) and whether the
\* dialog was shown
choose_bat_script_path(c) ==
    LET none == [path |-> NoScript, active |-> c.active, saved |-> FALSE, asked |-> FALSE]
        act == ValidActive(c)
    IN IF c.folder = "" THEN none
       ELSE IF c.bats = <<>> THEN none
       ELSE IF Len(act) = 1 THEN [none EXCEPT !.path = act[1]]
       ELSE IF Len(act) > 1
       THEN IF c.okd /\ c.choice \in Range(c.bats)
            THEN [none EXCEPT !.path = c.choice, !.asked = TRUE]
            ELSE [none EXCEPT !.asked = TRUE]
       ELSE IF Len(c.bats) = 1
       THEN [none EXCEPT !.path = c.bats[1], !.active = <<c.bats[1]>>, !.saved = TRUE]
       ELSE IF c.okd /\ c.choice \in Range(c.bats)
            THEN [path |-> c.choice, active |-> <<c.choice>>, saved |-> TRUE, asked |-> TRUE]
            ELSE [none EXCEPT !.asked = TRUE]

\* whether start_miner gets a script from _choose_bat_script_path
BatOutcomes == { choose_bat_script_path(c).path # NoScript : c \in ScriptCases }

\* the single_active loop of start_miner, over miner_tabs in configured order
RECURSIVE StopOthersFrom(_, _, _, _)
StopOthersFrom(s, id, ok, k) ==
    IF k > Len(MinerOrder) THEN s
    ELSE LET mid == MinerOrder[k]
             s1 == IF mid # id /\ is_running(s, mid) THEN stop_miner(s, mid, ok) ELSE s
         IN StopOthersFrom(s1, id, ok, k + 1)

StopOthersNone(s, id, ok) == s

StopOthers(s, id, ok) == StopOthersFrom(s, id, ok, 1)

\* what start_miner does once the already-running check has passed
\* exists: os.path.exists of the executable or script; bat: a script was chosen
StartChecked(s, id, cfg, ok, exists, bat, started) ==
    LET s1 == IF cfg.single_active THEN StopOthers(s, id, ok) ELSE s
    IN IF cfg.path[id] = "" THEN [s1 EXCEPT !.res = "NotConfigured"]
       ELSE IF MinerType(id) = "BAT"
       THEN IF ~bat THEN [s1 EXCEPT !.res = "NoScript"]
            ELSE IF ~exists THEN [s1 EXCEPT !.res = "NotFound"]
            ELSE start_process(s1, id, started)
       ELSE IF ~exists THEN [s1 EXCEPT !.res = "NotFound"]
            ELSE LET s2 == IF id = "xmrig" THEN write_xmrig_config(s1, cfg.xmrig) ELSE s1
                 IN start_process(s2, id, started)

start_miner_unguarded(s, id, cfg, ok, exists, bat, started) ==
    StartChecked(s, id, cfg, ok, exists, bat, started)

start_miner(s, id, cfg, ok, exists, bat, started) ==
    IF is_running(s, id) THEN [s EXCEPT !.res = "AlreadyRunning"]
    ELSE StartChecked(s, id, cfg, ok, exists, bat, started)

\* --------------------------------------------------------- status display
\* _update_all_buttons: the status label is recomputed from the record
\* a status display that looks at the last error before the process
Status_error_first(s, id) ==
    IF s.err[id] # NoError THEN "Error"
    ELSE IF is_running(s, id) /\ is_paused(s, id) THEN "Paused"
    ELSE IF is_running(s, id) THEN "Running"
    ELSE "Idle"

Status(s, id) ==
    IF is_running(s, id) /\ is_paused(s, id) THEN "Paused"
    ELSE IF is_running(s, id) THEN "Running"
    ELSE IF s.err[id] # NoError THEN "Error"
    ELSE "Idle"

\* --------------------------------------------------------- process output
\* Output is a sequence of pieces: words (the text between blanks, one blank
\* between two words), the line ends CR and LF, the SGR directive Esc
\* ("\x1b[32m") and the byte 0xFF, which is not valid UTF-8.
Esc == "ESC[32m"
\* self.last_hashrate: the attribute is not created by __init__ (NoAttr); once
\* it exists it maps "xmrig" to <<value, unit>>
NoAttr == <<"no attribute">>
NoSample == <<>>
NoColor == "none"

\* decode_process_bytes: UTF-8, and for bytes that are not, the mbcs code
\* page (cp1252), which maps 0xFF to y with diaeresis
decode_process_bytes(b) == [k \in DOMAIN b |-> IF b[k] = "0xFF" THEN "y-diaeresis" ELSE b[k]]

\* str.splitlines(): CR LF, CR and LF end a line; what follows the last line
\* end is a line if it is not empty
FirstEol(t) ==
    IF \E k \in DOMAIN t : t[k] \in {"CR", "LF"}
    THEN CHOOSE k \in DOMAIN t : t[k] \in {"CR", "LF"} /\ \A j \in 1..(k - 1) : t[j] \notin {"CR", "LF"}
    ELSE 0
\* a splitlines that gives the terminated lines only
RECURSIVE SplitTerminated(_)
SplitTerminated(t) ==
    LET k == FirstEol(t)
        n == IF t[k] = "CR" /\ k < Len(t) /\ t[k + 1] = "LF" THEN k + 1 ELSE k
    IN IF k = 0 THEN <<>>
       ELSE <<SubSeq(t, 1, k - 1)>> \o SplitTerminated(SubSeq(t, n + 1, Len(t)))
RECURSIVE SplitLines(_)
SplitLines(t) ==
    LET k == FirstEol(t)
        n == IF t[k] = "CR" /\ k < Len(t) /\ t[k + 1] = "LF" THEN k + 1 ELSE k
    IN IF t = <<>> THEN <<>>
       ELSE IF k = 0 THEN <<t>>
       ELSE <<SubSeq(t, 1, k - 1)>> \o SplitLines(SubSeq(t, n + 1, Len(t)))

\* str.lower() of a word (re.IGNORECASE)
LowerWord(w) == IF w = "ACCEPTED" THEN "accepted" ELSE IF w = "Speed" THEN "speed" ELSE w
\* strip_ansi: the escape sequences are removed
strip_ansi(line) == SelectSeq(line, LAMBDA w : w # Esc)
\* "\x1b[" in line
HasEscape(line) == \E k \in DOMAIN line : line[k] = Esc

\* XMRIG_RULES: the whole-word phrases of each pattern and its color
XMRIG_RULES ==
    << [words |-> {<<"accepted">>}, color |-> "#44ff44"],
       [words |-> {<<"new", "job">>}, color |-> "#ff44ff"],
       [words |-> {<<"rejected">>}, color |-> "#ff4444"],
       [words |-> {<<"error">>, <<"failed">>, <<"exception">>}, color |-> "#ff4444"],
       [words |-> {<<"difficulty">>, <<"hashrate">>, <<"share">>}, color |-> "#ffff44"] >>
\* the phrase occurs in the line as whole words, ignoring case
Occurs(phrase, line) ==
    \E p \in 1..(Len(line) - Len(phrase) + 1) :
        \A j \in 1..Len(phrase) : LowerWord(line[p + j - 1]) = phrase[j]
\* rx.search(line)
RuleMatches(k, line) == \E ph \in XMRIG_RULES[k].words : Occurs(ph, line)
\* a line_to_html_with_rules in which the last matching rule gives the color
line_to_html_last_rule(line, id) ==
    IF HasEscape(line) THEN [line |-> line, color |-> "ansi"]
    ELSE IF id = "xmrig" /\ \E k \in DOMAIN XMRIG_RULES : RuleMatches(k, line)
    THEN LET k == CHOOSE k \in DOMAIN XMRIG_RULES :
                    RuleMatches(k, line) /\ \A j \in DOMAIN XMRIG_RULES : j > k => ~RuleMatches(j, line)
         IN [line |-> line, color |-> XMRIG_RULES[k].color]
    ELSE [line |-> line, color |-> NoColor]
\* line_to_html_with_rules: the entry for the miner's log widget; a line with
\* an escape sequence is rendered by ansi_to_html_line (color "ansi": the
\* colors its directives ask for)
line_to_html_with_rules(line, id) ==
    IF HasEscape(line) THEN [line |-> line, color |-> "ansi"]
    ELSE IF id = "xmrig" /\ \E k \in DOMAIN XMRIG_RULES : RuleMatches(k, line)
    THEN LET k == CHOOSE k \in DOMAIN XMRIG_RULES :
                    RuleMatches(k, line) /\ \A j \in 1..(k - 1) : ~RuleMatches(j, line)
         IN [line |-> line, color |-> XMRIG_RULES[k].color]
    ELSE [line |-> line, color |-> NoColor]

\* [0-9.]+ and [kMGT]?H/s as whole words
IsNum(w) == w \in {"1234.5", "5678.9", "12.5"}
IsUnit(w) == w \in {"H/s", "kH/s"}
At(line, k) == IF k \in DOMAIN line THEN line[k] ELSE ""
\* _XMRIG_SPEED_RE matched at word p: speed, the optional interval header,
\* a number and, right after it, the unit
SpeedAt(line, p) ==
    IF LowerWord(At(line, p)) # "speed" THEN NoSample
    ELSE IF At(line, p + 1) = "10s/60s/15m" /\ IsNum(At(line, p + 2)) /\ IsUnit(At(line, p + 3))
    THEN <<At(line, p + 2), At(line, p + 3)>>
    ELSE IF IsNum(At(line, p + 1)) /\ IsUnit(At(line, p + 2))
    THEN <<At(line, p + 1), At(line, p + 2)>>
    ELSE NoSample
\* _XMRIG_HASHRATE_RE matched at word p: hashrate, an optional ":" or "=",
\* a number and the unit
HashrateAt(line, p) ==
    IF LowerWord(At(line, p)) # "hashrate" THEN NoSample
    ELSE IF At(line, p + 1) \in {":", "="} /\ IsNum(At(line, p + 2)) /\ IsUnit(At(line, p + 3))
    THEN <<At(line, p + 2), At(line, p + 3)>>
    ELSE IF IsNum(At(line, p + 1)) /\ IsUnit(At(line, p + 2))
    THEN <<At(line, p + 1), At(line, p + 2)>>
    ELSE NoSample
\* rx.search: the leftmost match
Search(line, at(_, _)) ==
    IF \E p \in DOMAIN line : at(line, p) # NoSample
    THEN at(line, CHOOSE p \in DOMAIN line :
                      at(line, p) # NoSample /\ \A j \in 1..(p - 1) : at(line, j) = NoSample)
    ELSE NoSample
\* _XMRIG_SPEED_RE.search(s) or _XMRIG_HASHRATE_RE.search(s)
HashrateMatch(line) ==
    LET s == strip_ansi(line)
    IN IF Search(s, SpeedAt) # NoSample THEN Search(s, SpeedAt) ELSE Search(s, HashrateAt)

\* a _maybe_capture_hashrate that stores the sample of any miner in a dict it
\* creates when missing
maybe_capture_hashrate_any(s, id, line) ==
    IF HashrateMatch(line) = NoSample THEN s ELSE [s EXCEPT !.hr = HashrateMatch(line)]
\* _maybe_capture_hashrate: self.last_hashrate["xmrig"] = ... raises
\* AttributeError while the attribute does not exist; _on_ready_read
\* swallows the exception
maybe_capture_hashrate(s, id, line) ==
    IF id # "xmrig" THEN s
    ELSE IF HashrateMatch(line) = NoSample THEN s
    ELSE IF s.hr = NoAttr THEN s
    ELSE [s EXCEPT !.hr = HashrateMatch(line)]

\* the loop of _on_ready_read from line k on: capture, append to the miner's
\* log widget, append to the global log
RECURSIVE ForwardLines(_, _, _, _)
ForwardLines(s, id, lines, k) ==
    IF k > Len(lines) THEN s
    ELSE LET s1 == maybe_capture_hashrate(s, id, lines[k])
             s2 == [s1 EXCEPT !.display[id] = Append(@, line_to_html_with_rules(lines[k], id)),
                              !.glog = Append(@, <<id, strip_ansi(lines[k])>>)]
         IN ForwardLines(s2, id, lines, k + 1)
\* an _on_ready_read that inserts at the top of the miner's log widget
RECURSIVE ForwardLinesOnTop(_, _, _, _)
ForwardLinesOnTop(s, id, lines, k) ==
    IF k > Len(lines) THEN s
    ELSE LET s1 == maybe_capture_hashrate(s, id, lines[k])
             s2 == [s1 EXCEPT !.display[id] = <<line_to_html_with_rules(lines[k], id)>> \o @,
                              !.glog = Append(@, <<id, strip_ansi(lines[k])>>)]
         IN ForwardLinesOnTop(s2, id, lines, k + 1)
on_ready_read_on_top(s, id, data) ==
    ForwardLinesOnTop(s, id, SplitLines(decode_process_bytes(data)), 1)
\* _on_ready_read(miner_id, proc, log_widget) with data = readAllStandardOutput()
on_ready_read(s, id, data) ==
    LET text == decode_process_bytes(data)
    IN IF text = <<>> THEN s ELSE ForwardLines(s, id, SplitLines(text), 1)

\* ---------------------------------------------------------------- actions
\* a handler returned: its result is the next state
Commit(r, esc) ==
    /\ ~r.over
    /\ procs' = r.procs
    /\ proc_pids' = r.pids
    /\ proc_paused' = r.paused
    /\ proc_last_error' = r.err
    /\ ost' = r.ost
    /\ ocrash' = r.ocrash
    /\ owner' = r.owner
    /\ timers' = r.timers
    /\ latest' = r.latest
    /\ escalated' = esc
    /\ display' = r.display
    /\ global_log' = r.glog
    /\ last_hashrate' = r.hr

Init ==
    /\ procs = [id \in ID |-> NoProc]
    /\ proc_pids = [id \in ID |-> NoProc]
    /\ proc_paused = [id \in ID |-> FALSE]
    /\ proc_last_error = [id \in ID |-> NoError]
    /\ ost = [i \in Inst |-> "none"]
    /\ ocrash = [i \in Inst |-> FALSE]
    /\ owner = [i \in Inst |-> "xmrig"]
    /\ timers = <<>>
    /\ latest = [id \in ID |-> NoProc]
    /\ escalated = {}
    /\ display = [id \in ID |-> <<>>]
    /\ global_log = <<>>
    /\ last_hashrate = NoAttr

\* The settings a start can read: the shipped defaults (_default_settings) and
\* edits of the fields start_miner reads.
DefaultSettings ==
    [single_active |-> FALSE,
     path |-> [id \in ID |-> IF id = "xmrig" THEN "set" ELSE ""],
     xmrig |-> [auto_config |-> TRUE, pool |-> "", wallet |-> ""]]

XmrigSet ==
    { [auto_config |-> TRUE, pool |-> "", wallet |-> ""],
      [auto_config |-> TRUE, pool |-> "pool.example:3333", wallet |-> ""],
      [auto_config |-> TRUE, pool |-> "", wallet |-> "WALLET1"],
      [auto_config |-> TRUE, pool |-> "pool.example:3333", wallet |-> "WALLET1"],
      [auto_config |-> FALSE, pool |-> "", wallet |-> ""] }

\* Inputs of the handlers, each drawn only where the handler reads it.
\* ok: the NtSuspendProcess / NtResumeProcess call succeeds
OkSet(id) == IF is_running(Cur, id) THEN BOOLEAN ELSE {TRUE}
ResumeOkSet(ids) ==
    IF \E id \in ids : is_running(Cur, id) /\ proc_paused[id] THEN BOOLEAN ELSE {TRUE}
\* waited: the killed process is reported finished within waitForFinished(2000);
\* code: the exit code reported then, when the process had ended by itself
WaitedSet(id) ==
    IF ~is_running(Cur, id) THEN {<<TRUE, 0>>}
    ELSE IF ost[procs[id]] = "dead" /\ ~ocrash[procs[id]] THEN {TRUE} \X ExitCodes
    ELSE {<<TRUE, 0>>, <<FALSE, 0>>}
\* cfg: the settings in force; exists / bat / started: the filesystem check,
\* the script choice, waitForStarted
SettingsFor(id) ==
    { [single_active |-> sa,
       path |-> [x \in ID |-> IF x = id THEN p ELSE DefaultSettings.path[x]],
       xmrig |-> xm] :
      sa \in (IF \E x \in ID \ {id} : is_running(Cur, x) THEN BOOLEAN ELSE {FALSE}),
      p \in {"", "set"},
      xm \in (IF id = "xmrig" THEN XmrigSet ELSE {DefaultSettings.xmrig}) }
StartOutcomes(id) ==
    {<<TRUE, TRUE, TRUE>>, <<TRUE, TRUE, FALSE>>, <<FALSE, TRUE, TRUE>>}
    \cup (IF MinerType(id) = "BAT" THEN {<<TRUE, b, TRUE>> : b \in BatOutcomes} ELSE {})

StartMiner(id) ==
    \E cfg \in SettingsFor(id), ok \in ResumeOkSet(ID \ {id}), o \in StartOutcomes(id) :
        Commit(start_miner(Cur, id, cfg, ok, o[1], o[2], o[3]), escalated)

StopMiner(id) ==
    \E ok \in ResumeOkSet({id}) :
        Commit(stop_miner(Cur, id, ok), escalated)

KillMiner(id) ==
    \E ok \in ResumeOkSet({id}), w \in WaitedSet(id) :
        Commit(kill_miner(Cur, id, ok, w[1], w[2]), escalated)

PauseMiner(id) ==
    \E ok \in OkSet(id) :
        Commit(pause_miner(Cur, id, ok), escalated)

ResumeMiner(id) ==
    \E ok \in OkSet(id) :
        Commit(resume_miner(Cur, id, ok), escalated)

\* the oldest pending escalation timer times out
EscalateTimeout ==
    /\ timers # <<>>
    /\ LET id == Head(timers)[1]
           armed == Head(timers)[2]
           s == [Cur EXCEPT !.timers = Tail(timers)]
       IN \E ok \in ResumeOkSet({id}), w \in WaitedSet(id) :
           LET r == escalate_kill_if_running(s, id, ok, w[1], w[2])
           IN Commit(r, IF r.res = "Killed" THEN escalated \cup {armed} ELSE escalated)

\* the OS process of instance i ends by itself, or is ended from outside
ProcExit(i) ==
    /\ ost[i] \in {"alive", "suspended"}
    /\ \E crash \in BOOLEAN :
        /\ ost[i] = "suspended" => crash
        /\ ost' = [ost EXCEPT ![i] = "dead"]
        /\ ocrash' = [ocrash EXCEPT ![i] = crash]
    /\ UNCHANGED <<procs, proc_pids, proc_paused, proc_last_error, owner,
                   timers, latest, escalated, display, global_log, last_hashrate>>

\* the event loop dispatches the death of instance i to its connected slots
ProcFinished(i) ==
    /\ ost[i] = "dead"
    /\ \E code \in (IF ocrash[i] THEN {CrashCode} ELSE ExitCodes) :
        Commit(ProcessDied(Cur, i, code), escalated)

\* QProcess reports a platform error for a running instance (errorOccurred)
ProcError(i) ==
    /\ ost[i] \in {"alive", "suspended"}
    /\ Commit(on_proc_error(Cur, owner[i]), escalated)

\* what one readAllStandardOutput() returns
ReadChunks ==
    { <<>>,
      <<"new">>,
      <<"job", "CR", "LF">>,
      <<Esc, "speed", "1234.5", "H/s", "LF">>,
      <<"rejected", "share", "LF", "error">> }
\* readyReadStandardOutput of instance i while its QProcess can be read;
\* MaxLines bounds the lines forwarded in a session
ReadyRead(i) ==
    /\ ost[i] \in {"alive", "suspended", "dead"}
    /\ \E data \in ReadChunks :
        LET r == on_ready_read(Cur, owner[i], data)
        IN Len(r.glog) <= MaxLines /\ Commit(r, escalated)

\* the Pause button exists for the identity "xmrig" only
PausableID == {"xmrig"}

Next ==
    \/ \E id \in PausableID : StartMiner(id)
    \/ \E id \in PausableID : StopMiner(id)
    \/ \E id \in PausableID : KillMiner(id)
    \/ \E id \in PausableID : PauseMiner(id)
    \/ \E id \in PausableID : ResumeMiner(id)
    \/ EscalateTimeout
    \/ \E i \in Inst : ProcExit(i)
    \/ \E i \in Inst : ProcFinished(i)
    \/ \E i \in Inst : ProcError(i)

Spec == Init /\ [][Next]_vars

\* EscalateTimeout is enabled exactly when a timer is pending
TimerEnabled == (ENABLED <<EscalateTimeout>>_vars) <=> (timers # <<>>)
\* A started single-shot QTimer times out after its interval and the event
\* loop runs its callback: weak fairness of EscalateTimeout, which is
\* WF_vars(EscalateTimeout) with its ENABLED written as in TimerEnabled.
TimerFairness == []<>(timers = <<>>) \/ []<><<EscalateTimeout>>_vars
SpecLive == Spec /\ TimerFairness

\* the settings and outcomes with which start_miner(id) launches a process
LaunchCfg(id) ==
    [single_active |-> FALSE,
     path |-> [x \in ID |-> IF x = id THEN "set" ELSE DefaultSettings.path[x]],
     xmrig |-> [auto_config |-> FALSE, pool |-> "", wallet |-> ""]]
\* start_miner(id) with settings that let it launch; the launch may fail
LaunchMiner(id) ==
    \E started \in BOOLEAN :
        Commit(start_miner(Cur, id, LaunchCfg(id), TRUE, TRUE, TRUE, started), escalated)

\* SpecOut explores the output of the processes, in the sessions in which
\* the settings are complete, both miners are launched and a miner ends by
\* itself or is ended from outside
NextOut ==
    \/ \E id \in ID : LaunchMiner(id)
    \/ \E i \in Inst : ProcExit(i)
    \/ \E i \in Inst : ProcFinished(i)
    \/ \E i \in Inst : ReadyRead(i)

SpecOut == Init /\ [][NextOut]_vars

NextExcl ==
    \/ \E id \in ID : StartMiner(id)
    \/ \E id \in ID : StopMiner(id)
    \/ \E id \in ID : KillMiner(id)
    \/ EscalateTimeout
    \/ \E i \in Inst : ProcExit(i)
    \/ \E i \in Inst : ProcFinished(i)

SpecExcl == Init /\ [][NextExcl]_vars

\* ================================================================ properties
\* the external effects of one handler run, in call order
HasEff(r, kind, n) == \E k \in DOMAIN r.eff : r.eff[k] = <<kind, n>>
HasKind(r, kind) == \E k \in DOMAIN r.eff : r.eff[k][1] = kind
\* the record of identity id is the same in r as in the current state
SameRecord(r, id) ==
    /\ r.procs[id] = procs[id]
    /\ r.pids[id] = proc_pids[id]
    /\ r.paused[id] = proc_paused[id]
    /\ r.err[id] = proc_last_error[id]

\* C1: in every reachable state in which id has a tracked live process
\* (running or paused), start_miner(id) is refused as already running: it
\* starts no process, has no external effect, and leaves procs, proc_pids,
\* proc_paused and proc_last_error of id, every OS process and the pending
\* timers as they are.
C1_StartRejectedWhileRunning ==
    \A id \in ID : is_running(Cur, id) =>
        \A cfg \in SettingsFor(id), ok \in BOOLEAN, o \in StartOutcomes(id) :
            LET r == start_miner(Cur, id, cfg, ok, o[1], o[2], o[3])
            IN /\ r.res = "AlreadyRunning"
               /\ r.eff = <<>>
               /\ SameRecord(r, id)
               /\ r.ost = ost
               /\ r.timers = timers

\* C1 witness: xmrig is running and paused, and a start is refused there
C1_Witness ==
    /\ is_running(Cur, "xmrig")
    /\ proc_paused["xmrig"]
    /\ start_miner(Cur, "xmrig", DefaultSettings, TRUE, TRUE, TRUE, TRUE).res = "AlreadyRunning"

StartAccepted(s, id) ==
    start_miner(s, id, LaunchCfg(id), TRUE, TRUE, TRUE, TRUE).res # "AlreadyRunning"
\* the head of the timer queue fires: the inputs and the result of the callback
TimerRuns ==
    LET id == Head(timers)[1]
        s == [Cur EXCEPT !.timers = Tail(timers)]
    IN { escalate_kill_if_running(s, id, ok, w[1], w[2]) : ok \in BOOLEAN, w \in WaitedSet(id) }

\* C2 (as stated): when the timer armed by stop_miner(id) for an instance
\* fires and that instance has not exited, kill_miner(id) is called; no
\* instance has kill_miner called for it by more than one of its timers,
\* however many stops armed one; and once the kill and the callbacks it
\* triggers are done the identity is Idle.
C2_EscalationKillsOnceAndEndsIdle ==
    timers # <<>> =>
        LET id == Head(timers)[1]
            armed == Head(timers)[2]
        IN \A r \in TimerRuns :
            /\ (procs[id] = armed /\ is_running(Cur, id)) => r.res = "Killed"
            /\ r.res = "Killed" => armed \notin escalated
            /\ (r.res = "Killed" /\ ~is_running(r, id)
                /\ \A i \in Inst : r.owner[i] = id => r.ost[i] \in {"none", "reaped"})
               => Status(r, id) = "Idle"

\* C3 (as stated): a timer armed by stop_miner(id) for one instance never
\* kills an instance of id that was launched after that one.
C3_LateTimerSparesNewInstance ==
    timers # <<>> =>
        LET id == Head(timers)[1]
            armed == Head(timers)[2]
        IN \A r \in TimerRuns :
            \A i \in Inst : (i > armed /\ owner[i] = id /\ ost[i] # "none") =>
                /\ ~HasEff(r, "kill", i)
                /\ ~HasEff(r, "kill_process_tree", PidOf(i))
                /\ r.ost[i] = ost[i]

\* C4: when the timer armed by stop_miner(id) fires after the finished
\* callback of the instance it was armed for has been delivered, and id has
\* not been started again since, the callback does nothing: no kill, no tree
\* walk, no kill-by-name sweep, and no record or OS process changes.
C4_TimerAfterExitIsNoOp ==
    timers # <<>> =>
        LET id == Head(timers)[1]
            armed == Head(timers)[2]
        IN (ost[armed] = "reaped" /\ latest[id] = armed) =>
            \A r \in TimerRuns :
                /\ r.res = "NoOp"
                /\ r.eff = <<>>
                /\ \A x \in ID : SameRecord(r, x)
                /\ r.ost = ost

\* C4 witness: a timer is about to fire for an instance of xmrig whose
\* finished callback has run, with no later start of xmrig
C4_Witness ==
    /\ timers # <<>>
    /\ Head(timers)[1] = "xmrig"
    /\ ost[Head(timers)[2]] = "reaped"
    /\ latest["xmrig"] = Head(timers)[2]
    /\ \A r \in TimerRuns : r.res = "NoOp"

\* kill_miner(id) with the forced exit reported inside its bounded wait, so
\* that the callbacks the kill triggers have run when it returns
KillRuns(id) ==
    { kill_miner(Cur, id, ok, TRUE, code) : ok \in BOOLEAN, code \in ExitCodes }

\* C5 (as stated): kill_miner(id) on a tracked live process, once the
\* callbacks of the forced exit have run, leaves no tracked instance and no
\* pid, the pause flag false, the status Idle and not Error, and a start of
\* id is accepted.
C5_KillEndsIdle ==
    \A id \in ID : is_running(Cur, id) =>
        \A r \in KillRuns(id) :
            /\ r.procs[id] = NoProc
            /\ r.pids[id] = NoProc
            /\ ~r.paused[id]
            /\ Status(r, id) = "Idle"
            /\ StartAccepted(r, id)

\* the kill steps among the effects of a handler run
KillSteps(r) ==
    SelectSeq(r.eff, LAMBDA e : e[1] \in {"kill", "kill_process_tree", "kill_by_name"})

\* C6 (as stated): kill_miner(id) on a tracked running process kills the
\* tracked instance, then walks the process tree of the pid tracked when it
\* was called, then sweeps every kill name, in this order, also when the
\* finished callback is delivered during the bounded wait.
C6_KillStepsInOrder ==
    \A id \in ID : (is_running(Cur, id) /\ proc_pids[id] # NoProc) =>
        \A ok \in BOOLEAN, w \in WaitedSet(id) :
            KillSteps(kill_miner(Cur, id, ok, w[1], w[2])) =
                <<<<"kill", procs[id]>>, <<"kill_process_tree", proc_pids[id]>>>>
                \o [k \in 1..Len(KillNames(id)) |-> <<"kill_by_name", k>>]

\* C9 (as stated): starting xmrig with auto-config enabled and the pool or
\* the wallet empty reports the validation failure, writes no file and
\* launches no process: xmrig is not running afterwards.
C9_MissingPoolOrWalletStopsStart ==
    ~is_running(Cur, "xmrig") =>
        \A cfg \in SettingsFor("xmrig"), o \in StartOutcomes("xmrig") :
            (cfg.path["xmrig"] # "" /\ o[1] /\ cfg.xmrig.auto_config
             /\ (cfg.xmrig.pool = "" \/ cfg.xmrig.wallet = "")) =>
                LET r == start_miner(Cur, "xmrig", cfg, TRUE, o[1], o[2], o[3])
                IN /\ HasKind(r, "ValidationFailure")
                   /\ ~HasKind(r, "write_text")
                   /\ ~HasKind(r, "start")
                   /\ ~is_running(r, "xmrig")

\* C10: when Qt delivers finished(exitCode) of an instance launched for id,
\* exit code zero leaves proc_last_error[id] empty and a nonzero code leaves
\* the message carrying that code; in both cases procs[id] and proc_pids[id]
\* are released, the pause flag is false, and a start of id is accepted.
C10_FinishedReleasesRecord ==
    \A i \in Inst : ost[i] = "dead" =>
        \A code \in ExitCodes :
            LET id == owner[i]
                c == IF ocrash[i] THEN CrashCode ELSE code
                r == ProcessDied(Cur, i, code)
            IN /\ c = 0 => r.err[id] = NoError
               /\ c # 0 => r.err[id] = <<"exited with code", c>>
               /\ r.procs[id] = NoProc
               /\ r.pids[id] = NoProc
               /\ ~r.paused[id]
               /\ StartAccepted(r, id)

\* C10 witness: an instance that ended by itself while its identity carried an
\* error is about to be reported with exit code zero, which clears the error
C10_Witness ==
    \E i \in Inst :
        /\ ost[i] = "dead" /\ ~ocrash[i]
        /\ procs[owner[i]] = i
        /\ proc_last_error[owner[i]] # NoError
        /\ ProcessDied(Cur, i, 0).err[owner[i]] = NoError
        /\ ProcessDied(Cur, i, 0).procs[owner[i]] = NoProc

\* C7 (as stated): start_miner(id) with an empty path is refused as not
\* configured and changes nothing: no effect, no record, no OS process and
\* no timer changes, also with single_active set.
C7_NotConfiguredChangesNothing ==
    \A id \in ID : ~is_running(Cur, id) =>
        \A cfg \in SettingsFor(id), ok \in BOOLEAN, o \in StartOutcomes(id) :
            cfg.path[id] = "" =>
                LET r == start_miner(Cur, id, cfg, ok, o[1], o[2], o[3])
                IN /\ r.res = "NotConfigured"
                   /\ r.eff = <<>>
                   /\ \A x \in ID : SameRecord(r, x)
                   /\ r.ost = ost
                   /\ r.timers = timers

\* the starts of id made with single_active set
ExclusiveStarts(id) ==
    { start_miner(Cur, id, cfg, ok, o[1], o[2], o[3]) :
        cfg \in {c \in SettingsFor(id) : c.single_active},
        ok \in BOOLEAN, o \in StartOutcomes(id) }
\* how many pending timers are armed for instance i of identity id
Armed(tm, id, i) == Cardinality({k \in DOMAIN tm : tm[k] = <<id, i>>})

\* C8 (as stated): after a start made with single_active set, at most one
\* identity is running.
C8_AtMostOneRunning ==
    \A id \in ID : \A r \in ExclusiveStarts(id) :
        ~r.over => Cardinality({x \in ID : is_running(r, x)}) <= 1

\* C8 (amended): a start of id made with single_active set that launches a
\* process has, before the launch, sent terminate to the tracked instance of
\* every other identity that was running and armed one escalation timer for
\* it; that identity may still be running when the start returns.
C8_StartStopsOthersFirst ==
    \A id \in ID : \A r \in ExclusiveStarts(id) :
        (r.res = "Started" /\ ~r.over) =>
            \A x \in ID \ {id} : is_running(Cur, x) =>
                /\ \E k \in DOMAIN r.eff :
                    /\ r.eff[k] = <<"terminate", procs[x]>>
                    /\ \A j \in DOMAIN r.eff : r.eff[j][1] = "start" => k < j
                /\ Armed(r.timers, x, procs[x]) = Armed(timers, x, procs[x]) + 1

\* C8 witness: xmrig is running, and a start of wildrig with single_active
\* set launches wildrig while xmrig, sent terminate, is still running
C8_Witness ==
    /\ is_running(Cur, "xmrig")
    /\ ~is_running(Cur, "wildrig")
    /\ \E r \in ExclusiveStarts("wildrig") :
        /\ r.res = "Started" /\ ~r.over
        /\ HasEff(r, "terminate", procs["xmrig"])
        /\ is_running(r, "xmrig")

\* C11 (as stated): when QProcess reports a platform error for a running
\* instance launched for id, proc_last_error[id] is set, the status shown is
\* Error, and the process is not stopped: procs, proc_pids and proc_paused
\* are unchanged and nothing is terminated or killed.
C11_ErrorSetsErroredKeepsProcess ==
    \A i \in Inst : ost[i] \in {"alive", "suspended"} =>
        LET id == owner[i]
            r == on_proc_error(Cur, id)
        IN /\ r.err[id] # NoError
           /\ Status(r, id) = "Error"
           /\ r.procs = procs /\ r.pids = proc_pids /\ r.paused = proc_paused
           /\ r.eff = <<>>
           /\ r.ost = ost

\* C12: stop_miner(id) on an identity without a tracked live process (never
\* started, exited, killed, failed) does nothing: no terminate, no timer,
\* no record or OS process changes; so does every repetition of it.
C12_StopWhenNotRunningIsNoOp ==
    \A id \in ID : ~is_running(Cur, id) =>
        \A ok \in BOOLEAN :
            LET r == stop_miner(Cur, id, ok)
                r2 == stop_miner(r, id, ok)
            IN /\ r.res = "NotRunning"
               /\ r.eff = <<>> /\ r2.eff = <<>>
               /\ \A x \in ID : SameRecord(r, x) /\ SameRecord(r2, x)
               /\ r.timers = timers /\ r2.timers = timers
               /\ r.ost = ost /\ r2.ost = ost
               /\ ~r.over

\* C12 witness: xmrig has exited with an error kept in proc_last_error, and
\* a stop there is refused as not running
C12_Witness ==
    /\ ~is_running(Cur, "xmrig")
    /\ latest["xmrig"] # NoProc
    /\ ost[latest["xmrig"]] = "reaped"
    /\ proc_last_error["xmrig"] # NoError
    /\ stop_miner(Cur, "xmrig", TRUE).res = "NotRunning"

\* a stop has been sent to the tracked live instance of id and its timer is pending
Stopping(id) ==
    /\ is_running(Cur, id)
    /\ \E k \in DOMAIN timers : timers[k] = <<id, procs[id]>>
\* the OS call on the tracked pid of id can succeed: the process is there
Live(id) == proc_pids[id] # NoProc /\ ost[proc_pids[id]] \in {"alive", "suspended"}

\* C13 (as stated): pause_miner(id) on a running, not paused identity that
\* has not been sent a stop suspends the process and sets the pause flag
\* (when the OS call succeeds); on a paused identity it does nothing; in
\* every other state, also after a stop was sent, it suspends nothing and
\* leaves the pause flag as it is.
C13_PauseOnlyFromRunning ==
    \A id \in ID, ok \in BOOLEAN :
        LET r == pause_miner(Cur, id, ok)
        IN /\ (is_running(Cur, id) /\ ~proc_paused[id] /\ ~Stopping(id) /\ Live(id) /\ ok) =>
                /\ HasEff(r, "suspend", proc_pids[id])
                /\ r.paused[id]
           /\ (is_running(Cur, id) /\ proc_paused[id]) =>
                /\ r.eff = <<>>
                /\ SameRecord(r, id)
                /\ r.ost = ost
           /\ (~is_running(Cur, id) \/ (Stopping(id) /\ ~proc_paused[id])) =>
                /\ ~HasKind(r, "suspend")
                /\ r.paused[id] = proc_paused[id]
                /\ r.ost = ost

\* C14 (as stated): resume_miner(id) on a paused identity resumes the process,
\* clears the pause flag and the identity is Running; on a running, not
\* paused identity it makes no resume call and changes nothing.
C14_ResumeAlwaysRuns ==
    \A id \in ID, ok \in BOOLEAN :
        LET r == resume_miner(Cur, id, ok)
        IN /\ (is_running(Cur, id) /\ proc_paused[id]) =>
                /\ HasKind(r, "resume")
                /\ ~r.paused[id]
                /\ Status(r, id) = "Running"
           /\ (is_running(Cur, id) /\ ~proc_paused[id]) =>
                /\ r.eff = <<>>
                /\ SameRecord(r, id)
                /\ r.ost = ost

\* C14 (amended): resume_miner(id) on a paused identity calls the OS resume
\* on the tracked pid; when the call succeeds the process runs, the pause
\* flag is cleared and the status is Running; when it fails nothing changes
\* and the identity stays Paused.  On a running, not paused identity it
\* makes no resume call and changes nothing.
C14_ResumeFromPaused ==
    \A id \in ID, ok \in BOOLEAN :
        LET r == resume_miner(Cur, id, ok)
            pid == proc_pids[id]
        IN /\ (is_running(Cur, id) /\ proc_paused[id] /\ pid # NoProc) =>
                IF ok /\ Live(id)
                THEN /\ r.eff = <<<<"resume", pid>>>>
                     /\ r.ost[pid] = "alive"
                     /\ ~r.paused[id]
                     /\ Status(r, id) = "Running"
                ELSE /\ r.eff = <<>>
                     /\ r.ost = ost
                     /\ SameRecord(r, id)
                     /\ Status(r, id) = "Paused"
           /\ (is_running(Cur, id) /\ ~proc_paused[id]) =>
                /\ r.eff = <<>>
                /\ SameRecord(r, id)
                /\ r.ost = ost

\* C14 witness: xmrig is paused with its process suspended, and a resume
\* there makes it run again
C14_Witness ==
    /\ is_running(Cur, "xmrig")
    /\ proc_paused["xmrig"]
    /\ Live("xmrig")
    /\ ost[proc_pids["xmrig"]] = "suspended"
    /\ resume_miner(Cur, "xmrig", TRUE).res = "Resumed"
    /\ resume_miner(Cur, "xmrig", FALSE).res = "ResumeFailed"

\* C15 (as stated): stop_miner(id) on a paused identity resumes the process
\* before it sends terminate, so that terminate is never sent to a process
\* that is still suspended; and every stop_miner(id) on a running or paused
\* identity arms exactly one timer.
C15_StopResumesBeforeTerminate ==
    \A id \in ID, ok \in BOOLEAN : is_running(Cur, id) =>
        LET r == stop_miner(Cur, id, ok)
            proc == procs[id]
        IN /\ HasEff(r, "terminate", proc)
           /\ r.ost[proc] # "suspended"
           /\ (proc_paused[id] /\ Live(id) /\ ok) =>
                \E k, j \in DOMAIN r.eff :
                    /\ k < j
                    /\ r.eff[k] = <<"resume", proc_pids[id]>>
                    /\ r.eff[j] = <<"terminate", proc>>
           /\ Armed(r.timers, id, proc) = Armed(timers, id, proc) + 1
           /\ Cardinality({k \in DOMAIN r.eff : r.eff[k][1] = "timer"}) = 1

\* C16: once stop_miner(id) has been issued on a running process (terminate
\* sent, timer pending), the identity eventually is not tracked as running:
\* the finished callback of a natural exit releases it, or else the timer
\* fires and its kill_miner does; given that every pending timer fires.
C16_StopLeadsToNotRunning ==
    \A id \in ID : Stopping(id) ~> ~is_running(Cur, id)

\* C16 witness: the timer armed by a stop of xmrig has called kill_miner for
\* the instance it was armed for, which never exited by itself, and xmrig,
\* not started again, is not running
C16_Witness ==
    \E i \in escalated :
        /\ owner[i] = "xmrig"
        /\ latest["xmrig"] = i
        /\ ost[i] = "reaped"
        /\ ~is_running(Cur, "xmrig")

\* the runs of start_miner(id) in the current state
StartRuns(id) ==
    { start_miner(Cur, id, cfg, ok, o[1], o[2], o[3]) :
        cfg \in SettingsFor(id), ok \in BOOLEAN, o \in StartOutcomes(id) }

\* C17: a start of id whose process is not started within the bounded wait
\* leaves no tracked instance and no pid, a message in proc_last_error[id]
\* and the status Error; the launch was tried once, no instance exists for
\* it, and a later start of id is accepted.
C17_LaunchFailureIsErrored ==
    \A id \in ID : \A r \in StartRuns(id) :
        r.res = "StartFailed" =>
            /\ r.procs[id] = NoProc
            /\ r.pids[id] = NoProc
            /\ r.err[id] # NoError
            /\ Status(r, id) = "Error"
            /\ Cardinality({k \in DOMAIN r.eff : r.eff[k][1] = "start"}) = 1
            /\ FreeSlots(r) = FreeSlots(Cur)
            /\ StartAccepted(r, id)

\* C17 witness: xmrig has never been launched and carries the error of a
\* failed start
C17_Witness ==
    /\ latest["xmrig"] = NoProc
    /\ proc_last_error["xmrig"] = ErrMsg
    /\ procs["xmrig"] = NoProc
    /\ Status(Cur, "xmrig") = "Error"

\* C18: a step that launches an instance for id leaves id running with that
\* instance tracked, its pid recorded, the pause flag false and
\* proc_last_error[id] empty; and a step that empties a non-empty
\* proc_last_error[id] is either such a launch or the delivery of a clean
\* exit of an instance of id, never a refused start.
C18_LaunchSuccessClearsError ==
    [][\A id \in ID :
        LET launch == latest'[id] # latest[id]
            clean == \E i \in Inst : /\ owner[i] = id
                                     /\ ost[i] = "dead" /\ ~ocrash[i]
                                     /\ ost'[i] = "reaped"
        IN /\ launch =>
                /\ procs'[id] = latest'[id]
                /\ ost'[latest'[id]] = "alive"
                /\ proc_pids'[id] = PidOf(latest'[id])
                /\ ~proc_paused'[id]
                /\ proc_last_error'[id] = NoError
           /\ (proc_last_error[id] # NoError /\ proc_last_error'[id] = NoError) =>
                launch \/ clean
      ]_vars

\* C18 witness: xmrig carries an error and is not running; a start that
\* launches clears the error, a start refused for its empty path keeps it
C18_Witness ==
    /\ ~is_running(Cur, "xmrig")
    /\ proc_last_error["xmrig"] # NoError
    /\ LET r == start_miner(Cur, "xmrig", LaunchCfg("xmrig"), TRUE, TRUE, TRUE, TRUE)
           q == start_miner(Cur, "xmrig", [LaunchCfg("xmrig") EXCEPT !.path["xmrig"] = ""],
                            TRUE, TRUE, TRUE, TRUE)
       IN /\ r.res = "Started" /\ r.err["xmrig"] = NoError /\ Status(r, "xmrig") = "Running"
          /\ q.res = "NotConfigured" /\ q.err["xmrig"] = proc_last_error["xmrig"]

\* C19: in every reachable state, for every identity, a recorded pid implies
\* a tracked instance, and a set pause flag implies a tracked instance.
C19_PidAndPauseImplyHandle ==
    \A id \in ID :
        /\ proc_pids[id] # NoProc => procs[id] # NoProc
        /\ proc_paused[id] => procs[id] # NoProc

\* C19 witness: xmrig has run and been paused, and another instance of it has
\* been released before: pid and pause flag are recorded with the handle
C19_Witness ==
    /\ procs["xmrig"] # NoProc
    /\ proc_pids["xmrig"] = PidOf(procs["xmrig"])
    /\ proc_paused["xmrig"]
    /\ \E i \in Inst : i # procs["xmrig"] /\ owner[i] = "xmrig" /\ ost[i] = "reaped"

\* the script cases with more than one active script in the folder
SeveralActive == { c \in ScriptCases : Len(ValidActive(c)) > 1 }
\* _choose_bat_script_path on them: a choice made in the dialog is the script
\* to run, a cancelled dialog gives none, and either way the ticked names
\* stay as they are and are not saved
ChoiceDecides ==
    \A c \in SeveralActive :
        LET p == choose_bat_script_path(c)
        IN /\ c.okd => p.path = c.choice /\ c.choice \in Range(ValidActive(c))
           /\ ~c.okd => p.path = NoScript
           /\ p.active = c.active
           /\ ~p.saved
\* whether start_miner gets a script when the dialog over several active
\* scripts is cancelled
NoChoiceOutcomes ==
    { choose_bat_script_path(c).path # NoScript : c \in { d \in SeveralActive : ~d.okd } }

\* C20: for a BAT miner that is not running and has its path set, when more
\* than one active script is in the folder, the script to run is the one
\* chosen in the dialog; when the dialog is cancelled, start_miner reports
\* "No script selected", starts no process, leaves procs, proc_pids,
\* proc_paused, proc_last_error and the status of id as they are, and the
\* active scripts stay as they were, unsaved.
C20_NoChoiceStartsNothing ==
    /\ ChoiceDecides
    /\ NoChoiceOutcomes # {}
    /\ \A id \in ID : (MinerType(id) = "BAT" /\ ~is_running(Cur, id)) =>
          \A cfg \in SettingsFor(id), ok \in ResumeOkSet(ID \ {id}), b \in NoChoiceOutcomes :
              cfg.path[id] # "" =>
                  LET r == start_miner(Cur, id, cfg, ok, TRUE, b, TRUE)
                  IN /\ r.res = "NoScript"
                     /\ ~HasKind(r, "start")
                     /\ SameRecord(r, id)
                     /\ Status(r, id) = Status(Cur, id)

\* C20 witness: wildrig is idle while xmrig runs, two active scripts are in
\* its folder; the cancelled dialog starts nothing and leaves wildrig idle,
\* the same dialog answered with the second script launches it
C20_Witness ==
    /\ is_running(Cur, "xmrig")
    /\ Status(Cur, "wildrig") = "Idle"
    /\ LET c == [folder |-> "dir", bats |-> <<1, 2, 3>>, active |-> <<2, 3>>,
                 okd |-> FALSE, choice |-> 1]
           d == [c EXCEPT !.okd = TRUE, !.choice = 3]
           r == start_miner(Cur, "wildrig", LaunchCfg("wildrig"), TRUE, TRUE,
                            choose_bat_script_path(c).path # NoScript, TRUE)
           q == start_miner(Cur, "wildrig", LaunchCfg("wildrig"), TRUE, TRUE,
                            choose_bat_script_path(d).path # NoScript, TRUE)
       IN /\ c \in SeveralActive /\ d \in SeveralActive
          /\ r.res = "NoScript" /\ Status(r, "wildrig") = "Idle" /\ ~HasKind(r, "start")
          /\ choose_bat_script_path(d).path = 3
          /\ q.res = "Started" /\ Status(q, "wildrig") = "Running"

\* ScriptCases with a folder that holds scripts
WithScripts == { c \in ScriptCases : c.folder # "" /\ c.bats # <<>> }
\* _choose_bat_script_path on them, by the number of active names that are
\* files of the folder
SelectionPolicy ==
    \A c \in WithScripts :
        LET v == ValidActive(c)
            p == choose_bat_script_path(c)
            q == choose_bat_script_path([c EXCEPT !.active = v])
        IN /\ p.path = q.path /\ p.asked = q.asked /\ p.saved = q.saved
           /\ \A k \in DOMAIN v : v[k] \in Range(c.bats) /\ v[k] \in Range(c.active)
           /\ \A a \in Range(c.active) \cap Range(c.bats) : a \in Range(v)
           /\ Len(v) = 1 => p.path = v[1] /\ ~p.asked
           /\ (Len(v) = 0 /\ Len(c.bats) = 1) =>
                 p.path = c.bats[1] /\ p.active = <<c.bats[1]>> /\ p.saved /\ ~p.asked
           /\ (Len(v) = 0 /\ Len(c.bats) > 1) =>
                 /\ p.asked
                 /\ c.okd => p.path = c.choice /\ p.active = <<c.choice>> /\ p.saved
                 /\ ~c.okd => p.path = NoScript /\ p.active = c.active /\ ~p.saved
\* whether start_miner gets a script in the cases that need no cancelled dialog
SelectedOutcomes ==
    { choose_bat_script_path(c).path # NoScript :
        c \in { d \in WithScripts : d.okd /\ (Len(ValidActive(d)) = 0 \/ Len(ValidActive(d)) = 1) } }

\* C21: _choose_bat_script_path decides as if the active names that are not
\* files of the folder were not there; with exactly one active script left
\* it returns it without showing the dialog; with none left and one script
\* in the folder it returns that script and saves it as the only active
\* one; with none left and several scripts it shows the dialog, and the
\* script chosen there is returned and saved as the only active one (a
\* cancelled dialog returns none and saves nothing).  A BAT miner that is not
\* running and has its path set is then started with the script selected.
C21_SelectionFollowsPolicy ==
    /\ SelectionPolicy
    /\ SelectedOutcomes # {}
    /\ \A id \in ID : (MinerType(id) = "BAT" /\ ~is_running(Cur, id)) =>
          \A b \in SelectedOutcomes :
              LET r == start_miner(Cur, id, LaunchCfg(id), TRUE, TRUE, b, TRUE)
              IN r.over \/ (r.res = "Started" /\ HasKind(r, "start") /\ is_running(r, id))

\* C21 witness: wildrig has run before and is not running; with the ticked
\* names <<3, 1>> and a folder holding 1 and 2 the stale name 3 is dropped and
\* script 1 is started without asking; with nothing ticked and the folder
\* holding only 2, script 2 is selected and saved as the only active one
C21_Witness ==
    /\ latest["wildrig"] # NoProc
    /\ ~is_running(Cur, "wildrig")
    /\ LET c == [folder |-> "dir", bats |-> <<1, 2>>, active |-> <<3, 1>>,
                 okd |-> TRUE, choice |-> 1]
           d == [folder |-> "dir", bats |-> <<2>>, active |-> <<>>,
                 okd |-> TRUE, choice |-> 1]
           p == choose_bat_script_path(c)
           q == choose_bat_script_path(d)
           r == start_miner(Cur, "wildrig", LaunchCfg("wildrig"), TRUE, TRUE,
                            p.path # NoScript, TRUE)
       IN /\ c \in ScriptCases /\ d \in ScriptCases
          /\ p.path = 1 /\ ~p.asked /\ ~p.saved
          /\ q.path = 2 /\ q.active = <<2>> /\ q.saved
          /\ r.res = "Started" /\ is_running(r, "wildrig")

\* names given to kill_by_name
EvilName == <<".", ".", "/", "evil", ".exe">>
KillTargets ==
    { EvilName, <<"xmrig", ".exe">>, <<"XMRig", ".EXE">>, <<" ", "xmrig", ".exe", " ">>,
      <<"cmd", ".EXE">>, <<"wildrig", ".exe">>, <<"evil", ".exe">>, <<".", ".exe">>,
      <<"xmrig">>, <<".exe">>, <<"xmrig", ".exe", "/">>, <<"xmrig", " ", ".exe">>, <<>> }
\* the names of KillTargets that have the strict shape, once stripped
ShapedTargets ==
    { <<"xmrig", ".exe">>, <<"XMRig", ".EXE">>, <<" ", "xmrig", ".exe", " ">>,
      <<"cmd", ".EXE">>, <<"wildrig", ".exe">>, <<"evil", ".exe">>, <<".", ".exe">> }
\* validation passes exactly the names of the strict shape: "../evil.exe"
\* fails, "xmrig.exe" passes
ValidatesShape ==
    /\ ~SafeExeName(Strip(EvilName)) /\ SafeExeName(Strip(<<"xmrig", ".exe">>))
    /\ \A name \in KillTargets : SafeExeName(Strip(name)) <=> name \in ShapedTargets
\* the listed processes whose base-name equals the name ignoring case
BaseName == [name \in KillTargets |-> Lower(Strip(name))]
Matching(name) == { i \in Listed(Cur) : Lower(ExeName(owner[i])) = BaseName[name] }
\* the instances whose OS state or crash mark differ between Cur and s
Touched(s) == { i \in Inst : s.ost[i] # ost[i] \/ s.ocrash[i] # ocrash[i] }

\* C26 as stated: kill_by_name kills nothing and returns 0 for a name that
\* fails validation, and for a valid name kills exactly the listed processes
\* whose base-name equals it ignoring case and returns their number, whether
\* or not kill() is refused for some of them.
C26_KillsExactlyMatching ==
    \A name \in KillTargets, denied \in SUBSET Listed(Cur) :
        LET r == kill_exe_name(Cur, name, denied)
        IN IF name \in ShapedTargets
           THEN /\ \A i \in Matching(name) : r.st.ost[i] = "dead"
                /\ Touched(r.st) = Matching(name)
                /\ r.killed = Cardinality(Matching(name))
           ELSE r.killed = 0 /\ r.st = Cur

\* C26: kill_by_name kills nothing and returns 0 for a name that fails
\* validation ("../evil.exe" fails, "xmrig.exe" passes); for a valid name it
\* kills exactly the listed processes whose base-name equals it ignoring
\* case and whose kill() is not refused, and returns their number.
C26_KillsMatchingNotDenied ==
    /\ ValidatesShape
    /\ \A name \in KillTargets : \A denied \in SUBSET Matching(name) :
        LET r == kill_exe_name(Cur, name, denied)
        IN /\ r.st = [Cur EXCEPT !.ost = r.st.ost, !.ocrash = r.st.ocrash]
           /\ IF name \in ShapedTargets
              THEN /\ \A i \in Matching(name) \ denied : r.st.ost[i] = "dead"
                   /\ Touched(r.st) = Matching(name) \ denied
                   /\ r.killed = Cardinality(Matching(name) \ denied)
              ELSE r.killed = 0 /\ r.st = Cur

\* C26 witness: an xmrig.exe and a cmd.exe process are listed; "XMRig.EXE"
\* kills the first only and returns 1, "../evil.exe" kills nothing
C26_Witness ==
    /\ is_running(Cur, "xmrig") /\ ost[procs["xmrig"]] = "alive"
    /\ is_running(Cur, "wildrig") /\ ost[procs["wildrig"]] = "alive"
    /\ LET r == kill_exe_name(Cur, <<"XMRig", ".EXE">>, {})
           q == kill_exe_name(Cur, EvilName, {})
       IN /\ r.killed = 1 /\ r.st.ost[procs["xmrig"]] = "dead"
          /\ r.st.ost[procs["wildrig"]] = "alive"
          /\ q.killed = 0 /\ q.st = Cur

\* C27 (as stated): when Qt dispatches the death of an instance of id while
\* a later instance of id is tracked, the finished callback leaves procs[id]
\* and proc_pids[id] on the later instance; and every live process is the
\* one tracked for its identity.
C27_LateFinishedKeepsNewInstance ==
    /\ \A i \in Inst : (ost[i] = "dead" /\ procs[owner[i]] \notin {NoProc, i}) =>
          \A code \in (IF ocrash[i] THEN {CrashCode} ELSE ExitCodes) :
              LET r == ProcessDied(Cur, i, code)
              IN /\ r.procs[owner[i]] = procs[owner[i]]
                 /\ r.pids[owner[i]] = proc_pids[owner[i]]
    /\ \A i \in Inst : ost[i] \in {"alive", "suspended"} => procs[owner[i]] = i

\* the tracked QProcess of id exists and has not been reported finished
TrackedRunning(id) ==
    IF procs[id] = NoProc THEN FALSE ELSE ost[procs[id]] \notin {"none", "reaped"}

\* C28: the status text is "Paused" when the tracked process is running and
\* proc_paused is set, "Running" when it is running and not paused, "Error"
\* when it is not running and proc_last_error is set, "Idle" otherwise.  While
\* a tracked process that has ended is still to be reported, the status is
\* Running or Paused whatever proc_last_error holds; when its exit is
\* reported, a nonzero code or a crash gives "Error" with the identity no
\* longer running, and code zero gives "Idle" even after an earlier error.
C28_StatusFollowsRecord ==
    /\ \A id \in ID :
          Status(Cur, id) = IF TrackedRunning(id) /\ proc_paused[id] THEN "Paused"
                            ELSE IF TrackedRunning(id) THEN "Running"
                            ELSE IF proc_last_error[id] # NoError THEN "Error"
                            ELSE "Idle"
    /\ \A i \in Inst : (ost[i] = "dead" /\ procs[owner[i]] = i) =>
          /\ Status(Cur, owner[i]) \in {"Running", "Paused"}
          /\ \A code \in (IF ocrash[i] THEN {CrashCode} ELSE ExitCodes) :
                LET r == ProcessDied(Cur, i, code)
                IN /\ ~is_running(r, owner[i])
                   /\ Status(r, owner[i]) = IF code # 0 \/ ocrash[i] THEN "Error" ELSE "Idle"

\* C28 witness: the tracked xmrig process has ended by itself after a
\* platform error was recorded; the status is still Running, and the report
\* of exit code 0 turns it to Idle, of exit code 1 to Error
C28_Witness ==
    /\ procs["xmrig"] # NoProc
    /\ proc_last_error["xmrig"] = ErrMsg
    /\ ost[procs["xmrig"]] = "dead" /\ ~ocrash[procs["xmrig"]]
    /\ Status(Cur, "xmrig") = "Running"
    /\ Status(ProcessDied(Cur, procs["xmrig"], 0), "xmrig") = "Idle"
    /\ Status(ProcessDied(Cur, procs["xmrig"], 1), "xmrig") = "Error"

\* C30: when the suspend call of pause_miner(id) fails, proc_paused[id] stays
\* false, and when the resume call of resume_miner(id) fails, it stays true;
\* in both cases procs[id] and proc_pids[id] are unchanged and no OS process
\* changes.  So for every identity whose tracked process is alive or
\* suspended, proc_paused is set exactly when the process is suspended, i.e.
\* when the last call that succeeded on it was the suspend.
C30_PauseFlagFollowsOsCalls ==
    \A id \in ID :
        /\ \A ok \in BOOLEAN :
              LET p == pause_miner(Cur, id, ok)
                  r == resume_miner(Cur, id, ok)
              IN /\ p.res = "PauseFailed" =>
                       /\ ~proc_paused[id] /\ ~p.paused[id]
                       /\ p.procs = procs /\ p.pids = proc_pids /\ p.ost = ost
                 /\ r.res = "ResumeFailed" =>
                       /\ proc_paused[id] /\ r.paused[id]
                       /\ r.procs = procs /\ r.pids = proc_pids /\ r.ost = ost
                 /\ p.res = "Paused" => p.paused[id] /\ p.ost[procs[id]] = "suspended"
                 /\ r.res = "Resumed" => ~r.paused[id] /\ r.ost[procs[id]] = "alive"
        /\ (procs[id] # NoProc /\ ost[IF procs[id] = NoProc THEN 1 ELSE procs[id]] \in {"alive", "suspended"}) =>
              (proc_paused[id] <=> ost[procs[id]] = "suspended")

\* C30 witness: the second xmrig instance is paused; a failing resume call
\* leaves it paused and tracked, and after a resume that succeeds a failing
\* suspend call leaves it running, not paused and tracked
C30_Witness ==
    /\ is_running(Cur, "xmrig") /\ proc_paused["xmrig"]
    /\ ost[procs["xmrig"]] = "suspended"
    /\ procs["xmrig"] = 2
    /\ LET r == resume_miner(Cur, "xmrig", FALSE)
           q == pause_miner(resume_miner(Cur, "xmrig", TRUE), "xmrig", FALSE)
       IN /\ r.res = "ResumeFailed" /\ r.paused["xmrig"] /\ r.procs = procs
          /\ q.res = "PauseFailed" /\ ~q.paused["xmrig"] /\ q.procs = procs

\* ------------------------------------------------------ output properties
\* the entries one read event of miner id adds to its log widget and to the
\* global log, one per line of the decoded text, in the order of the lines
DisplayEntries(id, data) ==
    LET lines == SplitLines(decode_process_bytes(data))
    IN [k \in 1..Len(lines) |-> line_to_html_with_rules(lines[k], id)]
LogEntries(id, data) ==
    LET lines == SplitLines(decode_process_bytes(data))
    IN [k \in 1..Len(lines) |-> <<id, strip_ansi(lines[k])>>]
\* the entries of the global log that come from miner id
LogOf(id) == SelectSeq(global_log, LAMBDA e : e[1] = id)

\* C22: every step that changes a log widget or the global log is one read
\* event of one miner: it appends to the end of that miner's widget and to
\* the end of the global log one entry per line of the event, in the order
\* of the lines, and changes no other widget.  So at all times the widget of
\* a miner and the global log hold the same lines of that miner in the same
\* order (the global log without the escape sequences).
C22_SinksReceiveLinesInOrder ==
    /\ [](\A id \in ID :
            /\ Len(LogOf(id)) = Len(display[id])
            /\ \A k \in DOMAIN display[id] : LogOf(id)[k] = <<id, strip_ansi(display[id][k].line)>>)
    /\ [][(display' # display \/ global_log' # global_log) =>
            \E id \in ID, data \in ReadChunks :
                /\ DisplayEntries(id, data) # <<>>
                /\ display' = [display EXCEPT ![id] = @ \o DisplayEntries(id, data)]
                /\ global_log' = global_log \o LogEntries(id, data)]_vars

\* C22 witness: xmrig has been read twice, "new" and then the speed line with
\* its escape sequence; both sinks hold the two lines in that order
C22_Witness ==
    /\ Len(display["xmrig"]) = 2
    /\ display["xmrig"][1].line = <<"new">>
    /\ display["xmrig"][2].line = <<Esc, "speed", "1234.5", "H/s">>
    /\ global_log = << <<"xmrig", <<"new">> >>, <<"xmrig", <<"speed", "1234.5", "H/s">> >> >>

\* lines to classify: up to two words
ClassWords ==
    {"accepted", "ACCEPTED", "unaccepted", "new", "job", "rejected", "error", "failed",
     "exception", "difficulty", "hashrate", "share", "ok", Esc}
ClassLines ==
    {<<>>} \cup { <<w>> : w \in ClassWords } \cup (ClassWords \X ClassWords)
\* the line has the word, as a whole word and ignoring case
HasWord(line, w) == \E k \in DOMAIN line : LowerWord(line[k]) = w
\* the color the rule order gives
KeywordColor(line) ==
    IF HasWord(line, "accepted") THEN "#44ff44"
    ELSE IF \E k \in 1..(Len(line) - 1) : line[k] = "new" /\ line[k + 1] = "job" THEN "#ff44ff"
    ELSE IF HasWord(line, "rejected") THEN "#ff4444"
    ELSE IF HasWord(line, "error") \/ HasWord(line, "failed") \/ HasWord(line, "exception")
    THEN "#ff4444"
    ELSE IF HasWord(line, "difficulty") \/ HasWord(line, "hashrate") \/ HasWord(line, "share")
    THEN "#ffff44"
    ELSE NoColor
\* the entry of a line follows the classification stated in C23
Classified(e, id) ==
    IF HasEscape(e.line) THEN e.color = "ansi"
    ELSE IF id = "xmrig" THEN e.color = KeywordColor(e.line)
    ELSE e.color = NoColor
ClassifiesAll ==
    \A line \in ClassLines, id \in ID :
        LET e == line_to_html_with_rules(line, id)
        IN e.line = line /\ Classified(e, id)

\* C23: line_to_html_with_rules gives a keyword color only to a line without
\* escape sequence and only for xmrig, and the color is that of the first of
\* the rules accepted, new job, rejected, error/failed/exception,
\* difficulty/hashrate/share that matches; a line matching none and every
\* line of another miner has no keyword color.  Every entry in a log widget
\* is classified so.
C23_FirstMatchingRuleColors ==
    /\ ClassifiesAll
    /\ \A id \in ID : \A k \in DOMAIN display[id] : Classified(display[id][k], id)

\* C23 witness: xmrig has printed "rejected share" and "error" in one read
\* event; the first line matches the rules rejected and share and has the
\* color of rejected
C23_Witness ==
    /\ Len(display["xmrig"]) = 2
    /\ display["xmrig"][1] = [line |-> <<"rejected", "share">>, color |-> "#ff4444"]
    /\ display["xmrig"][2] = [line |-> <<"error">>, color |-> "#ff4444"]
    /\ line_to_html_with_rules(<<"rejected", "share">>, "wildrig").color = NoColor

\* the line of C24, as xmrig prints it
SpeedLine == <<"speed", "10s/60s/15m", "1234.5", "5678.9", "n/a", "H/s">>

\* C24 (as stated): when a running xmrig prints the line
\* "speed 10s/60s/15m 1234.5 5678.9 n/a H/s", the stored hashrate sample
\* becomes "1234.5 H/s".
C24_SpeedLineUpdatesSample ==
    is_running(Cur, "xmrig") =>
        on_ready_read(Cur, "xmrig", Append(SpeedLine, "LF")).hr = <<"1234.5", "H/s">>

\* the handlers other than _on_ready_read leave self.last_hashrate as it is
OthersKeepSample ==
    \A id \in ID :
        /\ \A ok \in BOOLEAN :
              /\ stop_miner(Cur, id, ok).hr = last_hashrate
              /\ pause_miner(Cur, id, ok).hr = last_hashrate
              /\ resume_miner(Cur, id, ok).hr = last_hashrate
              /\ \A w \in BOOLEAN : kill_miner(Cur, id, ok, w, 1).hr = last_hashrate
        /\ \A started \in BOOLEAN :
              start_miner(Cur, id, LaunchCfg(id), TRUE, TRUE, TRUE, started).hr = last_hashrate
        /\ on_proc_error(Cur, id).hr = last_hashrate
        /\ \A code \in ExitCodes : on_proc_finished(Cur, id, code).hr = last_hashrate
        /\ \A data \in ReadChunks :
              on_ready_read(Cur, id, data).hr # last_hashrate =>
                  /\ id = "xmrig"
                  /\ \E k \in DOMAIN DisplayEntries(id, data) :
                        HashrateMatch(DisplayEntries(id, data)[k].line) # NoSample

CutTexts ==
    { << <<"new", "job", "LF">>, 1 >>,
      << <<"speed", "1234.5", "H/s", "CR", "LF", Esc, "accepted", "share">>, 2 >>,
      << <<"speed", "1234.5", "H/s", "CR", "LF", Esc, "accepted", "share">>, 7 >> }
FirstPart(x) == SubSeq(x[1], 1, x[2])
SecondPart(x) == SubSeq(x[1], x[2] + 1, Len(x[1]))
\* what the read events of C29 hold, and the lines of each
ReadTexts == ReadChunks \cup { FirstPart(x) : x \in CutTexts } \cup { SecondPart(x) : x \in CutTexts }
LinesOf == [data \in ReadTexts \cup { x[1] : x \in CutTexts } |-> SplitLines(decode_process_bytes(data))]
EntriesOf == [id \in ID |-> [data \in ReadTexts |-> DisplayEntries(id, data)]]
\* the cuts are inside a line, and a text that does not end with a line end
\* has its last words as its last line
CutsAreMidLine ==
    /\ \A x \in CutTexts :
          /\ x[2] \in 1..(Len(x[1]) - 1)
          /\ x[1][x[2]] \notin {"CR", "LF"} /\ x[1][x[2] + 1] \notin {"CR", "LF"}
          /\ Len(LinesOf[FirstPart(x)]) + Len(LinesOf[SecondPart(x)]) = Len(LinesOf[x[1]]) + 1
    /\ \A data \in ReadTexts :
          (data # <<>> /\ data[Len(data)] \notin {"CR", "LF"}) =>
              /\ Len(LinesOf[data]) >= 1
              /\ \E k \in DOMAIN data :
                    /\ k = 1 \/ data[IF k = 1 THEN 1 ELSE k - 1] \in {"CR", "LF"}
                    /\ LinesOf[data][Len(LinesOf[data])] = SubSeq(data, k, Len(data))
          
\* C29: a read event forwards the lines of its own text only, whatever was
\* read before, and text without a line end at its end gives a last line
\* that is forwarded at once.  When the bytes of one line arrive in two read
\* events, cut between two words, the first event forwards the first part as
\* a line and the second event adds exactly the lines of its own text: one
\* more line in all than the uncut text gives.
C29_EachReadSplitsAlone ==
    /\ CutsAreMidLine
    /\ \A id \in ID :
        /\ \A data \in ReadChunks :
              LET r == on_ready_read(Cur, id, data)
              IN /\ r.display[id] = display[id] \o EntriesOf[id][data]
                 /\ Len(EntriesOf[id][data]) = Len(LinesOf[data])
                 /\ \A k \in DOMAIN LinesOf[data] : EntriesOf[id][data][k].line = LinesOf[data][k]
        /\ \A x \in CutTexts :
              LET r == on_ready_read(Cur, id, FirstPart(x))
                  q == on_ready_read(r, id, SecondPart(x))
              IN /\ r.display[id] = display[id] \o EntriesOf[id][FirstPart(x)]
                 /\ q.display[id] = r.display[id] \o EntriesOf[id][SecondPart(x)]
                 /\ Len(q.display[id]) = Len(display[id]) + Len(LinesOf[x[1]]) + 1

\* C29 witness: the line "new job" of xmrig has arrived as "new" and
\* "job" CR LF in two read events and is in the sinks as two lines
C29_Witness ==
    /\ Len(display["xmrig"]) = 2
    /\ display["xmrig"][1].line = <<"new">>
    /\ display["xmrig"][2].line = <<"job">>
    /\ display["xmrig"][2].color = NoColor
    /\ line_to_html_with_rules(<<"new", "job">>, "xmrig").color = "#ff44ff"

====
